---- MODULE Spec2Model ----
(***************************************************************************)
(* Offline durability and synchronisation core of the Glove-monitor PWA:   *)
(* the UploadManager (persistent upload queue, single-flight drain pass,   *)
(* exponential backoff timers), the storage quota governor                 *)
(* (applyRetentionPolicy, ensureStorageSpace) and the data manager         *)
(* (createRecord, removeRecord) over the IndexedDB stores and OPFS.        *)
(*                                                                         *)
(* Every asynchronous function is modelled as a process whose steps are    *)
(* its await points: a step performs the awaited store / network           *)
(* operation and runs the synchronous code that follows it up to the next  *)
(* await.  Steps of different processes interleave freely, as the          *)
(* callbacks of the browser's event loop do.                               *)
(***************************************************************************)
EXTENDS Integers, Sequences, FiniteSets, TLC

(***************************************************************************)
(* Bounds of the model.                                                    *)
(***************************************************************************)
NRecs == 2          \* record ids that createRecord can hand out
MaxTicks == 1       \* steps of BASE_RETRY_DELAY ms the clock may advance
MaxPasses == 2      \* processQueue activations representable at once
MaxUploads == 1     \* accepted submissions counted in uploadAttempts
MaxRestarts == 1    \* restarts of the process

(***************************************************************************)
(* Program constants.                                                      *)
(***************************************************************************)
MAX_RETRIES == 5
BASE_RETRY_DELAY == 1000
DayMs == 24 * 60 * 60 * 1000
MB == 1024 * 1024
OldestBatch == 100
NoRetryAt == 0      \* an item without nextRetryAt (undefined is falsy)
NoFile == 0         \* an absent thumbnailFileName
Now0 == 3 * DayMs   \* Date.now() when the process starts

Recs == 1..NRecs
PassIds == 1..MaxPasses

VARIABLES
    now,            \* Date.now()
    records,        \* IndexedDB store 'records', keyed by id
    queue,          \* IndexedDB store 'uploads', keyed by recordId
    blobs,          \* OPFS directory: the file names present
    storedSettings, \* IndexedDB store 'settings', key 'storageSettings'
    quota,          \* navigator.storage.estimate().quota
    otherBytes,     \* usage not due to OPFS files (caches, database)
    isProcessing,   \* UploadManager.isProcessing
    retryTimeouts,  \* UploadManager.retryTimeouts: recordId -> timer
    timers,         \* timers armed with window.setTimeout, not yet fired
    passes,         \* activations of processQueue
    usedIds,        \* ids generateUUID has handed out
    cap,            \* the capture flow (createRecord + queueUpload)
    gov,            \* the running governor call
    rm,             \* a removeRecord call made by the record list
    session,        \* how many times the process has been restarted
    ui              \* the settings page: its running reset and settings update

vars == <<now, records, queue, blobs, storedSettings, quota, otherBytes,
          isProcessing, retryTimeouts, timers, passes, usedIds,
          cap, gov, rm, session, ui>>

dbVars == <<records, queue, blobs>>
envVars == <<storedSettings, quota, otherBytes, session, ui>>
umVars == <<isProcessing, retryTimeouts, timers, passes>>

\* the settings page at rest
IdleUi == [nuke |-> "idle", upd |-> "idle", partial |-> << >>, current |-> << >>]

(***************************************************************************)
(* Helpers on partial functions and sequences.                             *)
(***************************************************************************)
Put(f, k, v) == (k :> v) @@ f
Del(f, k) == [x \in (DOMAIN f) \ {k} |-> f[x]]
EmptyMap == [x \in {} |-> 0]
Range(s) == {s[i] : i \in DOMAIN s}

RECURSIVE Pow2(_)
Pow2(n) == IF n = 0 THEN 1 ELSE 2 * Pow2(n - 1)

RECURSIVE SumOver(_, _)
SumOver(S, f) ==
    IF S = {} THEN 0
    ELSE LET x == CHOOSE y \in S : TRUE IN f[x] + SumOver(S \ {x}, f)

(***************************************************************************)
(* Files.  The blobs of record r are the primary file FileOf(r) and the    *)
(* thumbnail ThumbOf(r); their sizes are fixed by the captured input.      *)
(***************************************************************************)
FileOf(r) == 2 * r - 1
ThumbOf(r) == 2 * r
FileNames == 1..(2 * NRecs)
BlobSize(f) == IF f % 2 = 1 THEN 25 + 15 * f ELSE 10

\* the capture with id r comes with a thumbnail
HasThumbnail(r) == r % 2 = 0

\* the media of a record captured as one file, with or without a thumbnail
MediaOf(r, withThumb) ==
    <<[fileName |-> FileOf(r),
       thumbnailFileName |-> IF withThumb THEN ThumbOf(r) ELSE NoFile]>>

RECURSIVE BlobNames(_)
BlobNames(media) ==
    IF media = <<>> THEN <<>>
    ELSE LET m == Head(media) IN
         <<m.fileName>>
         \o (IF m.thumbnailFileName # NoFile THEN <<m.thumbnailFileName>> ELSE <<>>)
         \o BlobNames(Tail(media))

RECURSIVE TotalSize(_)
TotalSize(names) ==
    IF names = <<>> THEN 0 ELSE BlobSize(Head(names)) + TotalSize(Tail(names))

BlobBytes(bs) == SumOver(bs, [f \in FileNames |-> BlobSize(f)])

\* navigator.storage.estimate().usage
Usage == otherBytes + BlobBytes(blobs)

(***************************************************************************)
(* indexedDB.ts                                                            *)
(***************************************************************************)
\* getAllFromIndex(store, 'by-timestamp'): ascending timestamp, then key
RECURSIVE ByTimestamp(_)
ByTimestamp(store) ==
    IF DOMAIN store = {} THEN <<>>
    ELSE LET k == CHOOSE x \in DOMAIN store :
                    \A y \in DOMAIN store :
                        \/ store[x].timestamp < store[y].timestamp
                        \/ store[x].timestamp = store[y].timestamp /\ x <= y
         IN <<store[k]>> \o ByTimestamp(Del(store, k))

getUploadQueue == ByTimestamp(queue)
getAllRecords == ByTimestamp(records)

getOldestRecords(limit) ==
    LET all == ByTimestamp(records)
    IN IF Len(all) <= limit THEN all ELSE SubSeq(all, 1, limit)

(***************************************************************************)
(* uploadManager.ts                                                        *)
(***************************************************************************)
IdlePass ==
    [pc |-> "idle", cur |-> 0, rest |-> <<>>, rec |-> 0, toRead |-> <<>>,
     delay |-> 0]

Active(p) == passes[p].pc # "idle"
ActivePasses == {p \in PassIds : Active(p)}

\* the re-entrancy guard of processQueue
BusyMutant == FALSE
Busy == isProcessing

\* the two 'continue' tests of the drain loop
SkipMutant(item, t) == item.nextRetryAt # NoRetryAt /\ item.nextRetryAt > t
SkipBackoffMutant(item, t) == item.retryCount >= MAX_RETRIES
Skip(item, t) ==
    \/ item.nextRetryAt # NoRetryAt /\ item.nextRetryAt > t
    \/ item.retryCount >= MAX_RETRIES

\* the for loop up to the next item it attempts
RECURSIVE Advance(_, _)
Advance(items, t) ==
    IF items = <<>> THEN <<>>
    ELSE IF Skip(Head(items), t) THEN Advance(Tail(items), t)
    ELSE items

nextRetryDelayMutant(item) == BASE_RETRY_DELAY * (item.retryCount + 1)
nextRetryDelay(item) == BASE_RETRY_DELAY * Pow2(item.retryCount)

\* processQueue(): the synchronous part of a call
ProcessQueueCall ==
    IF Busy \/ ActivePasses = PassIds
    THEN UNCHANGED <<isProcessing, passes>>
    ELSE LET p == CHOOSE x \in PassIds \ ActivePasses :
                    \A y \in PassIds \ ActivePasses : x <= y
         IN /\ isProcessing' = TRUE
            /\ passes' = [passes EXCEPT ![p] = [IdlePass EXCEPT !.pc = "getQueue"]]

\* the pass goes on with the items left, or ends through 'finally'
LoopFrom(p, items) ==
    LET left == Advance(items, now)
    IN IF left = <<>>
       THEN /\ passes' = [passes EXCEPT ![p] = IdlePass]
            /\ isProcessing' = FALSE
       ELSE /\ passes' = [passes EXCEPT ![p] =
                    [IdlePass EXCEPT !.pc = "getRecord", !.cur = Head(left),
                                     !.rest = Tail(left)]]
            /\ UNCHANGED isProcessing

\* an exception leaves the for loop: only 'finally' runs
AbortPassMutant(p) ==
    /\ passes' = [passes EXCEPT ![p] = IdlePass]
    /\ UNCHANGED isProcessing
AbortPass(p) ==
    /\ passes' = [passes EXCEPT ![p] = IdlePass]
    /\ isProcessing' = FALSE

\* the catch branch up to its await of addToUploadQueue
CatchUploadMutant(p) ==
    LET item == passes[p].cur
    IN passes' = [passes EXCEPT ![p] =
           [@ EXCEPT !.pc = "requeue", !.rec = 0, !.toRead = <<>>,
                     !.delay = nextRetryDelay(item),
                     !.cur = [item EXCEPT !.nextRetryAt = now + nextRetryDelay(item)]]]
CatchUpload(p) ==
    LET item == passes[p].cur
    IN passes' = [passes EXCEPT ![p] =
           [@ EXCEPT !.pc = "requeue", !.rec = 0, !.toRead = <<>>,
                     !.delay = nextRetryDelay(item),
                     !.cur = [item EXCEPT !.retryCount = item.retryCount + 1,
                                          !.nextRetryAt = now + nextRetryDelay(item)]]]

\* await getUploadQueue()
PassReadQueue(p, ok) ==
    /\ passes[p].pc = "getQueue"
    /\ IF ok THEN LoopFrom(p, getUploadQueue) ELSE AbortPass(p)
    /\ UNCHANGED <<now, dbVars, envVars, retryTimeouts, timers, usedIds, cap, gov, rm>>

\* uploadRecord: await getRecord(recordId)
PassGetRecord(p) ==
    /\ passes[p].pc = "getRecord"
    /\ LET id == passes[p].cur.recordId IN
       IF id \notin DOMAIN records
       THEN CatchUpload(p)
       ELSE LET names == BlobNames(records[id].media) IN
            passes' = [passes EXCEPT ![p] =
                [@ EXCEPT !.pc = IF names = <<>> THEN "fetch" ELSE "getBlob",
                          !.rec = records[id], !.toRead = names]]
    /\ UNCHANGED <<now, dbVars, envVars, isProcessing, retryTimeouts, timers, usedIds, cap, gov, rm>>

\* getFileFromOPFS: getFileHandle(fileName) rejects, the file is not there
blobMissingMutant(name) == FALSE
blobMissing(name) == name \notin blobs

\* uploadRecord: await getMediaBlob(name)
PassGetBlob(p) ==
    /\ passes[p].pc = "getBlob"
    /\ LET names == passes[p].toRead IN
       IF blobMissing(Head(names))
       THEN CatchUpload(p)
       ELSE passes' = [passes EXCEPT ![p] =
                [@ EXCEPT !.pc = IF Tail(names) = <<>> THEN "fetch" ELSE "getBlob",
                          !.toRead = Tail(names)]]
    /\ UNCHANGED <<now, dbVars, envVars, isProcessing, retryTimeouts, timers, usedIds, cap, gov, rm>>

\* uploadRecord: the record as it is written back after an accepted upload
markSyncedMutant(record, t) ==
    [record EXCEPT !.synced = 1, !.lastUploadAttempt = t, !.error = FALSE]
markSyncedFlipMutant(record, t) ==
    [record EXCEPT !.synced = 1 - @, !.lastUploadAttempt = t, !.error = FALSE]
markSynced(record, t) ==
    [record EXCEPT !.synced = 1, !.uploadAttempts = @ + 1,
                   !.lastUploadAttempt = t, !.error = FALSE]

\* uploadRecord: await fetch(UPLOAD_ENDPOINT), response.ok and result.success
PassFetch(p, ok) ==
    /\ passes[p].pc = "fetch"
    /\ LET id == passes[p].cur.recordId IN
       IF ok
       THEN /\ passes[p].rec.uploadAttempts < MaxUploads
            /\ passes' = [passes EXCEPT ![p] =
                   [@ EXCEPT !.pc = "updateRecord",
                             !.rec = markSynced(passes[p].rec, now)]]
       ELSE CatchUpload(p)
    /\ UNCHANGED <<now, dbVars, envVars, isProcessing, retryTimeouts, timers,
                   usedIds, cap, gov, rm>>

\* uploadRecord: await updateRecord(record)
PassUpdateRecord(p, ok) ==
    /\ passes[p].pc = "updateRecord"
    /\ IF ok
       THEN /\ records' = Put(records, passes[p].cur.recordId, passes[p].rec)
            /\ passes' = [passes EXCEPT ![p] = [@ EXCEPT !.pc = "deleteItem"]]
       ELSE /\ CatchUpload(p)
            /\ UNCHANGED records
    /\ UNCHANGED <<now, queue, blobs, envVars, isProcessing, retryTimeouts,
                   timers, usedIds, cap, gov, rm>>

\* await deleteUploadQueueItem(item.recordId)
PassDeleteItem(p, ok) ==
    /\ passes[p].pc = "deleteItem"
    /\ IF ok
       THEN /\ queue' = Del(queue, passes[p].cur.recordId)
            /\ LoopFrom(p, passes[p].rest)
       ELSE /\ CatchUpload(p)
            /\ UNCHANGED <<queue, isProcessing>>
    /\ UNCHANGED <<now, records, blobs, envVars, retryTimeouts, timers, usedIds, cap, gov, rm>>

\* scheduleRetry(recordId, delay)
existingTimeoutMutant(id) == {}
existingTimeout(id) == IF id \in DOMAIN retryTimeouts THEN {retryTimeouts[id]} ELSE {}

scheduleRetry(id, delay) ==
    LET old == existingTimeout(id)
        t == [recordId |-> id, at |-> now + delay]
    IN /\ timers' = (timers \ old) \cup {t}
       /\ retryTimeouts' = Put(retryTimeouts, id, t)

\* catch branch: await addToUploadQueue(item), then scheduleRetry
PassRequeue(p, ok) ==
    /\ passes[p].pc = "requeue"
    /\ LET item == passes[p].cur IN
       IF ok
       THEN /\ queue' = Put(queue, item.recordId, item)
            /\ scheduleRetry(item.recordId, passes[p].delay)
            /\ LoopFrom(p, passes[p].rest)
       ELSE /\ AbortPass(p)
            /\ UNCHANGED <<queue, timers, retryTimeouts>>
    /\ UNCHANGED <<now, records, blobs, envVars, usedIds, cap, gov, rm>>

\* the callback armed by scheduleRetry: processQueue(), then forget the timer
TimerFire(t) ==
    /\ t \in timers
    /\ now >= t.at
    /\ timers' = timers \ {t}
    /\ ProcessQueueCall
    /\ retryTimeouts' = Del(retryTimeouts, t.recordId)
    /\ UNCHANGED <<now, dbVars, envVars, usedIds, cap, gov, rm>>

\* window 'online' listener
Online ==
    /\ ProcessQueueCall
    /\ UNCHANGED <<now, dbVars, envVars, retryTimeouts, timers, usedIds, cap, gov, rm>>

(***************************************************************************)
(* dataManager.ts: removeRecord, called by the record list ("ui") and by   *)
(* the governor ("gov").                                                   *)
(***************************************************************************)
RmCallers == {"ui", "gov"}
IdleRm == [pc |-> "idle", id |-> 0, toDelete |-> <<>>]
StartRm(id) == [IdleRm EXCEPT !.pc = "getRecord", !.id = id]

(***************************************************************************)
(* storageManager.ts: settings                                             *)
(***************************************************************************)
DEFAULT_SETTINGS ==
    [maxStorageMB |-> 0, warnThresholdPercent |-> 80, autoEvict |-> FALSE,
     retentionDays |-> 0, deleteSyncedOnly |-> TRUE]

\* { ...DEFAULT_SETTINGS, ...settings }
getStorageSettingsMutant == DEFAULT_SETTINGS @@ storedSettings
getStorageSettings == storedSettings @@ DEFAULT_SETTINGS

Min(a, b) == IF a <= b THEN a ELSE b

\* ensureStorageSpace: the effective limit
maxAllowedBytes(q, settings) ==
    IF settings.maxStorageMB > 0 THEN Min(q, settings.maxStorageMB * MB) ELSE q

\* ensureStorageSpace: if (!settings.autoEvict) throw
EvictionOffMutant(settings) == FALSE
EvictionOff(settings) == ~settings.autoEvict

\* applyRetentionPolicy: if (settings.deleteSyncedOnly && !record.synced) continue
RetentionProtectedMutant(settings, record) == FALSE
RetentionProtected(settings, record) ==
    settings.deleteSyncedOnly /\ record.synced = 0

\* ensureStorageSpace: if (settings.deleteSyncedOnly && !record.synced) continue
EvictionProtectedMutant(settings, record) == FALSE
EvictionProtected(settings, record) ==
    settings.deleteSyncedOnly /\ record.synced = 0

\* applyRetentionPolicy: cutoffDate and the test record.timestamp < cutoffDate
cutoffDate(settings, t) == t - settings.retentionDays * 24 * 60 * 60 * 1000
ExpiredMutant(record, cutoff) == record.timestamp <= cutoff
Expired(record, cutoff) == record.timestamp < cutoff

\* ensureStorageSpace: the final check
StillOverMutant(usage, requiredBytes, limit) == FALSE
StillOver(usage, requiredBytes, limit) == usage + requiredBytes > limit

IdleGov ==
    [pc |-> "idle", kind |-> "none", requiredBytes |-> 0, usage |-> 0,
     quota |-> 0, limit |-> 0, settings |-> DEFAULT_SETTINGS, need5 |-> 0, freedBytes |-> 0,
     cutoff |-> 0, list |-> <<>>, cur |-> 0, deletedCount |-> 0,
     result |-> "none", pre |-> 0]

\* the stores as the call found them
Stores == [records |-> records, queue |-> queue, blobs |-> blobs, usage |-> Usage]

RequiredChoices == {10, 30, 100}

\* ensureStorageSpace(requiredBytes) is called
EnsureStorageSpace(requiredBytes) ==
    /\ gov.pc = "idle"
    /\ gov' = [IdleGov EXCEPT !.pc = "estimate", !.kind = "ensure",
                              !.requiredBytes = requiredBytes, !.pre = Stores]
    /\ UNCHANGED <<now, dbVars, envVars, umVars, usedIds, cap, rm>>

\* applyRetentionPolicy() is called from the settings page
ApplyRetentionPolicy ==
    /\ gov.pc = "idle"
    /\ gov' = [IdleGov EXCEPT !.pc = "retSettings", !.kind = "retention",
                              !.pre = Stores]
    /\ UNCHANGED <<now, dbVars, envVars, umVars, usedIds, cap, rm>>

\* const stats = await getStorageEstimate()
GovEstimate ==
    /\ gov.pc = "estimate"
    /\ gov' = [gov EXCEPT !.pc = "settings", !.usage = Usage,
                          !.quota = quota]
    /\ UNCHANGED <<now, dbVars, envVars, umVars, usedIds, cap, rm>>

\* const settings = await getStorageSettings(), and the two limit checks
GovSettings ==
    /\ gov.pc = "settings"
    /\ LET settings == getStorageSettings
           limit == maxAllowedBytes(gov.quota, settings)
           projectedUsage == gov.usage + gov.requiredBytes
       IN gov' =
            IF projectedUsage <= limit
            THEN [gov EXCEPT !.pc = "done", !.result = "ok",
                             !.settings = settings, !.limit = limit]
            ELSE IF EvictionOff(settings)
            THEN [gov EXCEPT !.pc = "done", !.result = "exceeded",
                             !.settings = settings, !.limit = limit]
            ELSE [gov EXCEPT !.pc = "retSettings", !.settings = settings,
                             !.limit = limit, !.freedBytes = 0,
                             \* bytesToFree, times 5 to stay in the integers
                             !.need5 = 5 * (projectedUsage - limit)
                                       + gov.requiredBytes]
    /\ UNCHANGED <<now, dbVars, envVars, umVars, usedIds, cap, rm>>

\* applyRetentionPolicy has returned
AfterRetention(g) ==
    IF g.kind = "retention"
    THEN [g EXCEPT !.pc = "done", !.result = "ok", !.list = <<>>]
    ELSE [g EXCEPT !.pc = "oldest", !.list = <<>>]

\* applyRetentionPolicy: const settings = await getStorageSettings()
RetSettings ==
    /\ gov.pc = "retSettings"
    /\ LET settings == getStorageSettings IN
       gov' = IF settings.retentionDays > 0
              THEN [gov EXCEPT !.pc = "retAll", !.settings = settings,
                               !.deletedCount = 0,
                               !.cutoff = cutoffDate(settings, now)]
              ELSE AfterRetention([gov EXCEPT !.settings = settings,
                                              !.deletedCount = 0])
    /\ UNCHANGED <<now, dbVars, envVars, umVars, usedIds, cap, rm>>

\* the retention loop up to the next record it removes
RECURSIVE RetAdvance(_, _, _)
RetAdvance(list, settings, cutoff) ==
    IF list = <<>> THEN <<>>
    ELSE IF RetentionProtected(settings, Head(list)) THEN
             RetAdvance(Tail(list), settings, cutoff)
    ELSE IF Expired(Head(list), cutoff) THEN list
    ELSE RetAdvance(Tail(list), settings, cutoff)

\* if (freedBytes >= bytesToFree) break, both sides times 5
TargetReachedMutant(freedBytes, need5) == FALSE
TargetReached(freedBytes, need5) == 5 * freedBytes >= need5

\* the eviction loop up to the next record it removes
RECURSIVE EvictAdvance(_, _, _, _)
EvictAdvance(list, settings, freedBytes, need5) ==
    IF list = <<>> THEN <<>>
    ELSE IF TargetReached(freedBytes, need5) THEN <<>>
    ELSE IF EvictionProtected(settings, Head(list)) THEN
             EvictAdvance(Tail(list), settings, freedBytes, need5)
    ELSE list

\* the governor goes on after an await: its next state and the removeRecord
\* call it makes, if any
RetLoop(g, list) ==
    LET left == RetAdvance(list, g.settings, g.cutoff)
    IN IF left = <<>>
       THEN <<AfterRetention(g), IdleRm>>
       ELSE <<[g EXCEPT !.pc = "retRemove", !.cur = Head(left),
                        !.list = Tail(left)],
              StartRm(Head(left).id)>>

EvictLoop(g, list) ==
    LET left == EvictAdvance(list, g.settings, g.freedBytes, g.need5)
    IN IF left = <<>>
       THEN <<[g EXCEPT !.pc = "finalEstimate", !.list = <<>>], IdleRm>>
       ELSE <<[g EXCEPT !.pc = "evictRemove", !.cur = Head(left),
                        !.list = Tail(left)],
              StartRm(Head(left).id)>>

\* removeRecord has returned to the governor
GovResume ==
    IF gov.pc = "retRemove"
    THEN RetLoop([gov EXCEPT !.deletedCount = @ + 1], gov.list)
    ELSE EvictLoop([gov EXCEPT !.freedBytes = @ + gov.cur.sizeBytes], gov.list)

\* applyRetentionPolicy: const allRecords = await getAllRecords()
RetAll ==
    /\ gov.pc = "retAll"
    /\ LET go == RetLoop(gov, getAllRecords) IN
       /\ gov' = go[1]
       /\ rm' = [rm EXCEPT !["gov"] = go[2]]
    /\ UNCHANGED <<now, dbVars, envVars, umVars, usedIds, cap>>

\* ensureStorageSpace: const oldestRecords = await getOldestRecords(100)
GovOldest ==
    /\ gov.pc = "oldest"
    /\ LET go == EvictLoop(gov, getOldestRecords(OldestBatch)) IN
       /\ gov' = go[1]
       /\ rm' = [rm EXCEPT !["gov"] = go[2]]
    /\ UNCHANGED <<now, dbVars, envVars, umVars, usedIds, cap>>

\* ensureStorageSpace: const updatedStats = await getStorageEstimate()
GovFinalEstimate ==
    /\ gov.pc = "finalEstimate"
    /\ gov' = [gov EXCEPT !.pc = "done", !.usage = Usage,
                  !.result = IF StillOver(Usage, gov.requiredBytes, gov.limit)
                             THEN "full" ELSE "ok"]
    /\ UNCHANGED <<now, dbVars, envVars, umVars, usedIds, cap, rm>>

\* the caller has the outcome
GovReturn ==
    /\ gov.pc = "done"
    /\ gov' = IdleGov
    /\ UNCHANGED <<now, dbVars, envVars, umVars, usedIds, cap, rm>>

\* removeRecord returns to its caller
RmReturn(c) ==
    IF c = "gov"
    THEN LET go == GovResume IN
         /\ gov' = go[1]
         /\ rm' = [rm EXCEPT ![c] = go[2]]
    ELSE /\ rm' = [rm EXCEPT ![c] = IdleRm]
         /\ UNCHANGED gov

\* removeRecord: const record = await db.getRecord(recordId)
RmGetRecord(c) ==
    /\ rm[c].pc = "getRecord"
    /\ IF rm[c].id \notin DOMAIN records
       THEN RmReturn(c)
       ELSE LET names == BlobNames(records[rm[c].id].media) IN
            /\ rm' = [rm EXCEPT ![c] =
                   [@ EXCEPT !.pc = IF names = <<>> THEN "deleteRow"
                                    ELSE "deleteFile",
                             !.toDelete = names]]
            /\ UNCHANGED gov
    /\ UNCHANGED <<now, dbVars, envVars, umVars, usedIds, cap>>

\* removeRecord: await deleteFileFromOPFS(name)
RmDeleteFile(c) ==
    /\ rm[c].pc = "deleteFile"
    /\ blobs' = blobs \ {Head(rm[c].toDelete)}
    /\ rm' = [rm EXCEPT ![c] =
           [@ EXCEPT !.pc = IF Tail(rm[c].toDelete) = <<>> THEN "deleteRow"
                            ELSE "deleteFile",
                     !.toDelete = Tail(rm[c].toDelete)]]
    /\ UNCHANGED <<now, records, queue, envVars, umVars, usedIds, cap, gov>>

\* deleteRecordMetadata: await db.delete('records', id)
RmDeleteRow(c) ==
    /\ rm[c].pc = "deleteRow"
    /\ records' = Del(records, rm[c].id)
    /\ rm' = [rm EXCEPT ![c] = [@ EXCEPT !.pc = "deleteItem"]]
    /\ UNCHANGED <<now, queue, blobs, envVars, umVars, usedIds, cap, gov>>

\* deleteRecordMetadata: await deleteUploadQueueItem(id).catch(() => {})
RmDeleteItem(c) ==
    /\ rm[c].pc = "deleteItem"
    /\ queue' = Del(queue, rm[c].id)
    /\ RmReturn(c)
    /\ UNCHANGED <<now, records, blobs, envVars, umVars, usedIds, cap>>

RmStep(c) == RmGetRecord(c) \/ RmDeleteFile(c) \/ RmDeleteRow(c) \/ RmDeleteItem(c)

GovStep ==
    \/ GovEstimate \/ GovSettings \/ RetSettings \/ RetAll \/ GovOldest
    \/ GovFinalEstimate \/ GovReturn

(***************************************************************************)
(* dataManager.ts: createRecord, followed by UploadManager.queueUpload     *)
(***************************************************************************)
IdleCap == [pc |-> "idle", id |-> 0, timestamp |-> 0, toSave |-> <<>>,
            media |-> <<>>, item |-> 0]

\* the record object createRecord builds
NewRecord(id, ts, media) ==
    [id |-> id, timestamp |-> ts, media |-> media, synced |-> 0,
     sizeBytes |-> TotalSize(BlobNames(media)), uploadAttempts |-> 0,
     lastUploadAttempt |-> 0, error |-> FALSE]

\* queueUpload: the item it builds; the put replaces what the store held
queueItemMutant(recordId, t) ==
    IF recordId \in DOMAIN queue
    THEN [queue[recordId] EXCEPT !.timestamp = t]
    ELSE [recordId |-> recordId, timestamp |-> t, retryCount |-> 0,
          nextRetryAt |-> NoRetryAt]
queueItem(recordId, t) ==
    [recordId |-> recordId, timestamp |-> t, retryCount |-> 0,
     nextRetryAt |-> NoRetryAt]

\* createRecord(formData, files) is called
CreateRecord ==
    /\ cap.pc = "idle"
    /\ usedIds # Recs
    /\ LET id == CHOOSE x \in Recs \ usedIds : \A y \in Recs \ usedIds : x <= y
           media == MediaOf(id, HasThumbnail(id))
       IN /\ usedIds' = usedIds \cup {id}
          /\ cap' = [IdleCap EXCEPT !.pc = "saveFile", !.id = id,
                                    !.timestamp = now, !.media = media,
                                    !.toSave = BlobNames(media)]
    /\ UNCHANGED <<now, dbVars, envVars, umVars, gov, rm>>

\* await saveFileToOPFS(blob, ext)
CapSaveFile ==
    /\ cap.pc = "saveFile"
    /\ blobs' = blobs \cup {Head(cap.toSave)}
    /\ cap' = [cap EXCEPT !.toSave = Tail(cap.toSave),
                          !.pc = IF Tail(cap.toSave) = <<>> THEN "addRecord"
                                 ELSE "saveFile"]
    /\ UNCHANGED <<now, records, queue, envVars, umVars, usedIds, gov, rm>>

\* await db.addRecord(record); queueUpload builds its item
CapAddRecord ==
    /\ cap.pc = "addRecord"
    /\ records' = Put(records, cap.id, NewRecord(cap.id, cap.timestamp, cap.media))
    /\ cap' = [cap EXCEPT !.pc = "enqueue",
                          !.item = queueItem(cap.id, now)]
    /\ UNCHANGED <<now, queue, blobs, envVars, umVars, usedIds, gov, rm>>

\* queueUpload: await addToUploadQueue(queueItem); this.processQueue()
CapEnqueue ==
    /\ cap.pc = "enqueue"
    /\ queue' = Put(queue, cap.id, cap.item)
    /\ ProcessQueueCall
    /\ cap' = IdleCap
    /\ UNCHANGED <<now, records, blobs, envVars, retryTimeouts, timers, usedIds, gov, rm>>

(***************************************************************************)
(* The clock.                                                              *)
(***************************************************************************)
\* the instants at which a timer or a backoff falls due
Deadlines ==
    {t.at : t \in timers} \cup {queue[r].nextRetryAt : r \in DOMAIN queue}

\* time passes until the next instant at which something falls due
Tick ==
    /\ \E d \in Deadlines :
          /\ d > now
          /\ d <= Now0 + MaxTicks * BASE_RETRY_DELAY
          /\ \A e \in Deadlines : e > now => d <= e
          /\ now' = d
    /\ UNCHANGED <<dbVars, envVars, umVars, usedIds, cap, gov, rm>>

(***************************************************************************)
(* The upload queue manager.  The process starts on what earlier sessions  *)
(* persisted: nothing, or a record whose uploads have failed so far (its   *)
(* timers died with the earlier process).                                  *)
(***************************************************************************)
PersistedRetryCounts == {MAX_RETRIES - 1, MAX_RETRIES}

Init ==
    /\ now = Now0
    /\ \/ /\ records = EmptyMap
          /\ queue = EmptyMap
          /\ blobs = {}
          /\ usedIds = {}
       \/ \E n \in PersistedRetryCounts :
          /\ records = (1 :> NewRecord(1, Now0 - DayMs, MediaOf(1, HasThumbnail(1))))
          /\ queue = (1 :> [recordId |-> 1, timestamp |-> Now0 - DayMs,
                            retryCount |-> n,
                            nextRetryAt |-> Now0 - BASE_RETRY_DELAY])
          /\ blobs = {FileOf(1)}
          /\ usedIds = {1}
    /\ storedSettings = EmptyMap
    /\ quota = 1000
    /\ otherBytes = 0
    /\ session = 0
    /\ ui = IdleUi
    /\ isProcessing = FALSE
    /\ retryTimeouts = EmptyMap
    /\ timers = {}
    /\ passes = [p \in PassIds |-> IdlePass]
    /\ cap = IdleCap
    /\ gov = IdleGov
    /\ rm = [c \in RmCallers |-> IdleRm]

PassStep(p) ==
    \/ \E ok \in BOOLEAN : PassReadQueue(p, ok)
    \/ PassGetRecord(p)
    \/ PassGetBlob(p)
    \/ \E ok \in BOOLEAN : PassFetch(p, ok)
    \/ \E ok \in BOOLEAN : PassUpdateRecord(p, ok)
    \/ \E ok \in BOOLEAN : PassDeleteItem(p, ok)
    \/ \E ok \in BOOLEAN : PassRequeue(p, ok)

CapStep == CapSaveFile \/ CapAddRecord \/ CapEnqueue

Next ==
    \/ CreateRecord
    \/ CapStep
    \/ \E p \in PassIds : PassStep(p)
    \/ \E t \in timers : TimerFire(t)
    \/ Online
    \/ Tick

Spec == Init /\ [][Next]_vars

(***************************************************************************)
(* The same, on stores that never fail: only an upload can.                *)
(***************************************************************************)
ReliablePassStep(p) ==
    \/ PassReadQueue(p, TRUE)
    \/ PassGetRecord(p)
    \/ PassGetBlob(p)
    \/ \E ok \in BOOLEAN : PassFetch(p, ok)
    \/ PassUpdateRecord(p, TRUE)
    \/ PassDeleteItem(p, TRUE)
    \/ PassRequeue(p, TRUE)

ReliableNext ==
    \/ CreateRecord
    \/ CapStep
    \/ \E p \in PassIds : ReliablePassStep(p)
    \/ \E t \in timers : TimerFire(t)
    \/ Online
    \/ Tick

ReliableSpec == Init /\ [][ReliableNext]_vars

(***************************************************************************)
(* The governor on the data earlier sessions left: records of several      *)
(* ages, synced or still queued, under each configuration.                 *)
(***************************************************************************)
Platforms ==
    {[quota |-> 1000, other |-> 870], [quota |-> 2 * MB, other |-> MB - 130]}

Optional(field, value) == {EmptyMap, [x \in {field} |-> value]}

StoredSettingsChoices ==
    {a @@ b @@ c @@ d :
        a \in Optional("autoEvict", TRUE),
        b \in Optional("deleteSyncedOnly", FALSE),
        c \in Optional("retentionDays", 1),
        d \in Optional("maxStorageMB", 1)}

Ages == {2 * DayMs, DayMs}

StoredRecord(id, age, synced) ==
    [NewRecord(id, Now0 - age, MediaOf(id, HasThumbnail(id))) EXCEPT
        !.synced = synced, !.uploadAttempts = synced,
        !.lastUploadAttempt = synced * (Now0 - age)]

StoredRecordChoices(id) ==
    {StoredRecord(id, age, synced) : age \in Ages, synced \in {0, 1}}

GovInit ==
    /\ now = Now0
    /\ \E ids \in SUBSET Recs :
        /\ usedIds = ids
        /\ records \in [ids -> UNION {StoredRecordChoices(id) : id \in ids}]
        /\ \A id \in ids : records[id].id = id
        /\ queue = [id \in {x \in ids : records[x].synced = 0} |->
                       [recordId |-> id, timestamp |-> records[id].timestamp,
                        retryCount |-> 0, nextRetryAt |-> NoRetryAt]]
        /\ blobs = UNION {Range(BlobNames(records[id].media)) : id \in ids}
    /\ storedSettings \in StoredSettingsChoices
    /\ \E pf \in Platforms : quota = pf.quota /\ otherBytes = pf.other
    /\ session = 0
    /\ ui = IdleUi
    /\ isProcessing = FALSE
    /\ retryTimeouts = EmptyMap
    /\ timers = {}
    /\ passes = [p \in PassIds |-> IdlePass]
    /\ cap = IdleCap
    /\ gov = IdleGov
    /\ rm = [c \in RmCallers |-> IdleRm]

GovNext ==
    \/ \E b \in RequiredChoices : EnsureStorageSpace(b)
    \/ ApplyRetentionPolicy
    \/ GovStep
    \/ RmStep("gov")

GovSpec == GovInit /\ [][GovNext]_vars


(***************************************************************************)
(* The configuration in force, read off the persisted settings and the     *)
(* documented defaults.                                                    *)
(***************************************************************************)
Configured(field, default) ==
    IF field \in DOMAIN storedSettings THEN storedSettings[field] ELSE default

DeleteSyncedOnlyOn == Configured("deleteSyncedOnly", TRUE)
AutoEvictOn == Configured("autoEvict", FALSE)
RetentionDaysSet == Configured("retentionDays", 0)
MaxStorageMBSet == Configured("maxStorageMB", 0)

Ceiling ==
    IF MaxStorageMBSet > 0 /\ MaxStorageMBSet * 1048576 < quota
    THEN MaxStorageMBSet * 1048576
    ELSE quota

FilesOf(record) == Range(BlobNames(record.media))

\* record r is as the governor call found it: row, queue item and files
Kept(r) ==
    /\ r \in DOMAIN records /\ records[r] = gov.pre.records[r]
    /\ r \in DOMAIN gov.pre.queue =>
           r \in DOMAIN queue /\ queue[r] = gov.pre.queue[r]
    /\ FilesOf(gov.pre.records[r]) \cap gov.pre.blobs \subseteq blobs

StoresUntouched ==
    records = gov.pre.records /\ queue = gov.pre.queue /\ blobs = gov.pre.blobs

\* C4: while deleteSyncedOnly is true, no step of applyRetentionPolicy or of
\* ensureStorageSpace removes the row, the queue item or a file of a record
\* that is not yet synced.
C4_SyncedProtection ==
    [][(DeleteSyncedOnlyOn /\ rm["gov"] # rm'["gov"]) =>
          \A r \in DOMAIN records :
              records[r].synced = 0 =>
                  /\ r \in DOMAIN records' /\ records'[r] = records[r]
                  /\ r \in DOMAIN queue => r \in DOMAIN queue'
                  /\ FilesOf(records[r]) \cap blobs \subseteq blobs']_vars

\* an older unsynced record was passed over while a younger one was evicted
C4_Witness ==
    /\ gov.pc = "done" /\ gov.kind = "ensure" /\ DeleteSyncedOnlyOn
    /\ RetentionDaysSet = 0
    /\ \E r \in DOMAIN records, d \in DOMAIN gov.pre.records \ DOMAIN records :
          /\ records[r].synced = 0
          /\ records[r].timestamp < gov.pre.records[d].timestamp

\* C5: ensureStorageSpace reports success only if usage + requiredBytes is
\* within the ceiling when it returns; still above it after eviction, it fails.
C5_SuccessMeansFits ==
    (gov.pc = "done" /\ gov.kind = "ensure") =>
        (gov.result = "ok" <=> Usage + gov.requiredBytes <= Ceiling)

\* success after an eviction and the re-measurement
C5_Witness ==
    /\ gov.pc = "done" /\ gov.kind = "ensure" /\ gov.result = "ok"
    /\ gov.pre.usage + gov.requiredBytes > Ceiling
    /\ DOMAIN records # DOMAIN gov.pre.records

\* C8: with autoEvict false and usage + requiredBytes above the ceiling,
\* ensureStorageSpace fails with the storage-exceeded error and the stores are
\* as it found them.
C8_NoEvictionWhenOff ==
    (gov.kind = "ensure" /\ ~AutoEvictOn
        /\ gov.pre.usage + gov.requiredBytes > Ceiling) =>
        /\ StoresUntouched
        /\ gov.pc = "done" => gov.result = "exceeded"

\* the call failed although a synced, expired record could have been evicted
C8_Witness ==
    /\ gov.pc = "done" /\ gov.kind = "ensure" /\ gov.result = "exceeded"
    /\ ~AutoEvictOn
    /\ \E r \in DOMAIN records : records[r].synced = 1

\* C9: with autoEvict and deleteSyncedOnly true, every record unsynced and
\* usage + requiredBytes above the ceiling, ensureStorageSpace deletes nothing
\* and fails.
C9_ProtectionRejectsWrite ==
    (gov.kind = "ensure" /\ AutoEvictOn /\ DeleteSyncedOnlyOn
        /\ (\A r \in DOMAIN gov.pre.records : gov.pre.records[r].synced = 0)
        /\ gov.pre.usage + gov.requiredBytes > Ceiling) =>
        /\ StoresUntouched
        /\ gov.pc = "done" => gov.result = "full"

\* the failed call had unsynced records to pass over, one of them expired
C9_Witness ==
    /\ gov.pc = "done" /\ gov.kind = "ensure" /\ gov.result = "full"
    /\ AutoEvictOn /\ DeleteSyncedOnlyOn /\ RetentionDaysSet > 0
    /\ Cardinality(DOMAIN records) = 2
    /\ \A r \in DOMAIN records : records[r].synced = 0
    /\ \E r \in DOMAIN records :
          records[r].timestamp < now - RetentionDaysSet * 86400000

\* the records applyRetentionPolicy is to delete
ToExpire ==
    {r \in DOMAIN gov.pre.records :
        /\ RetentionDaysSet > 0
        /\ gov.pre.records[r].timestamp < now - RetentionDaysSet * 86400000
        /\ gov.pre.records[r].synced = 1 \/ ~DeleteSyncedOnlyOn}

\* C10: applyRetentionPolicy deletes exactly the records older than
\* now - retentionDays * 86400000 that are synced or unprotected, returns
\* their number, and deletes nothing when retentionDays = 0.
C10_RetentionExact ==
    (gov.pc = "done" /\ gov.kind = "retention") =>
        /\ DOMAIN records = DOMAIN gov.pre.records \ ToExpire
        /\ \A r \in DOMAIN records : Kept(r)
        /\ \A r \in ToExpire :
              r \notin DOMAIN queue /\ FilesOf(gov.pre.records[r]) \cap blobs = {}
        /\ gov.deletedCount = Cardinality(ToExpire)
        /\ RetentionDaysSet = 0 => gov.deletedCount = 0 /\ StoresUntouched

\* an expired synced record was deleted (count 1) while an expired unsynced
\* one survived under deleteSyncedOnly
C10_Witness ==
    /\ gov.pc = "done" /\ gov.kind = "retention" /\ gov.deletedCount = 1
    /\ DeleteSyncedOnlyOn
    /\ \E r \in DOMAIN records :
          /\ records[r].synced = 0
          /\ records[r].timestamp < now - RetentionDaysSet * 86400000
    /\ \E d \in ToExpire : gov.pre.records[d].synced = 1


(***************************************************************************)
(* The upload queue manager.                                               *)
(***************************************************************************)
\* the positions of a pass inside the try block: an upload attempt in flight
AttemptPcs == {"getRecord", "getBlob", "fetch", "updateRecord", "deleteItem"}

Attempting(p, r) == passes[p].pc \in AttemptPcs /\ passes[p].cur.recordId = r

\* the items pass p still holds from its snapshot
Held(p) ==
    (IF passes[p].pc \in AttemptPcs \cup {"requeue"}
     THEN {passes[p].cur.recordId} ELSE {})
    \cup {passes[p].rest[i].recordId : i \in DOMAIN passes[p].rest}

ThisSession(r) == r \in DOMAIN queue /\ queue[r].timestamp >= Now0

\* C1: at most one drain pass is in flight, so no record has two upload
\* attempts in flight; a processQueue call made meanwhile starts nothing.
C1_SingleFlight ==
    /\ Cardinality(ActivePasses) <= 1
    /\ \A r \in Recs : Cardinality({p \in PassIds : Attempting(p, r)}) <= 1

\* queueUpload called processQueue during a pass: its item is persisted, the
\* running pass does not hold it and no second pass was started for it
C1_Witness ==
    /\ cap.pc = "idle"
    /\ \E p \in PassIds, r \in Recs :
          /\ passes[p].pc \in AttemptPcs
          /\ ThisSession(r) /\ queue[r].retryCount = 0
          /\ r \notin Held(p)

\* nothing is running or armed: only a new enqueue or an 'online' event makes
\* the process act again
Quiescent == ActivePasses = {} /\ cap.pc = "idle" /\ timers = {}

\* C2: every record enqueued with queueUpload eventually leaves the pending
\* state (uploaded, or abandoned at retryCount = MAX_RETRIES), all attempts
\* terminating and all armed timers firing; so the process never comes to
\* rest with an item of this session still pending.
C2_NoStrandedItem ==
    Quiescent =>
        \A r \in Recs : ThisSession(r) => queue[r].retryCount >= MAX_RETRIES

\* C3: once an attempt has succeeded and the record is marked synced, no
\* later pass submits the record again: no upload request is made for a
\* record whose stored row says synced.
C3_NoResubmission ==
    [][\A p \in PassIds :
          (passes[p].pc = "fetch" /\ passes'[p].pc # "fetch"
             /\ passes[p].cur.recordId \in DOMAIN records)
              => records[passes[p].cur.recordId].synced = 0]_vars

ExpectedDelay(n) ==
    CASE n = 0 -> 1000 [] n = 1 -> 2000 [] n = 2 -> 4000 [] n = 3 -> 8000
      [] n = 4 -> 16000 [] OTHER -> -1

\* C6: a failed attempt for an item with retryCount n < MAX_RETRIES yields
\* retryCount n + 1 and nextRetryAt = now + 1000 * 2^n; persisting it puts
\* exactly that item, arms the record's one timer with the same delay and
\* leaves the records and the other queue items as they were.
C6_Backoff ==
    [][\A p \in PassIds :
          LET item == passes[p].cur IN
          /\ (passes[p].pc \in AttemptPcs /\ passes'[p].pc = "requeue") =>
                /\ item.retryCount < 5
                /\ passes'[p].cur =
                       [item EXCEPT !.retryCount = item.retryCount + 1,
                                    !.nextRetryAt =
                                        now + ExpectedDelay(item.retryCount)]
                /\ queue' = queue
                /\ records' = records
          /\ (passes[p].pc = "requeue" /\ passes'[p] # passes[p]
                /\ queue' # queue) =>
                /\ queue' = Put(queue, item.recordId, item)
                /\ records' = records
                /\ {t \in timers' : t.recordId = item.recordId} =
                       {[recordId |-> item.recordId,
                         at |-> now + ExpectedDelay(item.retryCount - 1)]}
                /\ {t \in timers' : t.recordId # item.recordId} =
                       {t \in timers : t.recordId # item.recordId}]_vars

\* a first failure is persisted and its timer armed, the record still
\* unsynced, next to another queue item
C6_Witness ==
    \E r \in Recs :
        /\ r \in DOMAIN queue /\ queue[r].retryCount = 1
        /\ [recordId |-> r, at |-> queue[r].nextRetryAt] \in timers
        /\ r \in DOMAIN records /\ records[r].synced = 0
        /\ DOMAIN queue # {r}

\* C7: an item with retryCount >= MAX_RETRIES has no attempt in flight, and no
\* step of a drain pass starts one or changes the persisted item.
C7_Abandoned ==
    /\ [](\A p \in PassIds, r \in DOMAIN queue :
             Attempting(p, r) => queue[r].retryCount < 5)
    /\ [][\A r \in DOMAIN queue :
             (queue[r].retryCount >= 5 /\ passes' # passes) =>
                 /\ r \in DOMAIN queue' /\ queue'[r] = queue[r]
                 /\ \A p \in PassIds :
                       ~(passes'[p].pc \in AttemptPcs
                           /\ passes'[p].cur.recordId = r)]_vars

\* a pass has gone past an abandoned item that was due and is attempting a
\* later one
C7_Witness ==
    \E p \in PassIds, r \in DOMAIN queue :
        /\ queue[r].retryCount >= 5 /\ queue[r].nextRetryAt <= now
        /\ passes[p].pc = "fetch"
        /\ passes[p].cur.timestamp > queue[r].timestamp

(***************************************************************************)
(* The record list deleting records while the upload queue manager runs.   *)
(***************************************************************************)
\* RecordList.handleDelete: removeRecord(recordId) for a record it has listed
RemoveRecord(id) ==
    /\ rm["ui"].pc = "idle"
    /\ id \in usedIds
    /\ rm' = [rm EXCEPT !["ui"] = StartRm(id)]
    /\ UNCHANGED <<now, dbVars, envVars, umVars, usedIds, cap, gov>>

\* deleteFileFromOPFS: removeEntry rejects, the catch logs and returns
RmDeleteFileFails(c) ==
    /\ rm[c].pc = "deleteFile"
    /\ rm' = [rm EXCEPT ![c] =
           [@ EXCEPT !.pc = IF Tail(rm[c].toDelete) = <<>> THEN "deleteRow"
                            ELSE "deleteFile",
                     !.toDelete = Tail(rm[c].toDelete)]]
    /\ UNCHANGED <<now, dbVars, envVars, umVars, usedIds, cap, gov>>

RemoveNext ==
    \/ ReliableNext
    \/ \E id \in Recs : RemoveRecord(id)
    \/ RmStep("ui")
    \/ RmDeleteFileFails("ui")

RemoveSpec == Init /\ [][RemoveNext]_vars

\* removeRecord, called by the record list, returns after its last step
RmReturns == rm["ui"].pc = "deleteItem" /\ rm'["ui"].pc = "idle"

\* no call of createRecord, removeRecord or processQueue is running
Settled == ActivePasses = {} /\ cap.pc = "idle" /\ rm["ui"].pc = "idle"

\* C11: when removeRecord(id) returns for a record made by createRecord, the
\* records collection and the upload queue hold no entry for id.
C11_RoundTrip ==
    [][RmReturns =>
          /\ rm["ui"].id \notin DOMAIN records'
          /\ rm["ui"].id \notin DOMAIN queue']_vars

\* C12: when removeRecord(id) returns, none of the record's files (primary or
\* thumbnail) is left in the Blob Store, also when a deletion failed.
C12_NoBlobLeft ==
    [][RmReturns =>
          {FileOf(rm["ui"].id), ThumbOf(rm["ui"].id)} \cap blobs' = {}]_vars

\* C19: every item of the upload queue refers to a record that exists and is
\* not yet synced (stated for the states in which no call is running).
C19_QueueRefersToUnsynced ==
    Settled =>
        \A r \in DOMAIN queue : r \in DOMAIN records /\ records[r].synced = 0

\* C20: every fileName and thumbnailFileName of every stored record names a
\* file that exists (stated for the states in which no call is running).
C20_NoDanglingBlob ==
    Settled => \A r \in DOMAIN records : FilesOf(records[r]) \subseteq blobs

(***************************************************************************)
(* The upload queue manager with one more entry point each: the process   *)
(* being restarted, queueUpload for a record that already exists, and      *)
(* cancelAllRetries.                                                       *)
(***************************************************************************)
\* what a new process finds of an IndexedDB store
PersistedMutant(store) == EmptyMap
Persisted(store) == store

\* the page is closed and loaded again: new UploadManager(), timers gone
Restart ==
    /\ session < MaxRestarts
    /\ session' = session + 1
    /\ records' = Persisted(records)
    /\ queue' = Persisted(queue)
    /\ isProcessing' = FALSE
    /\ retryTimeouts' = EmptyMap
    /\ timers' = {}
    /\ passes' = [p \in PassIds |-> IdlePass]
    /\ cap' = IdleCap
    /\ rm' = [c \in RmCallers |-> IdleRm]
    /\ ui' = IdleUi
    /\ UNCHANGED <<now, blobs, storedSettings, quota, otherBytes, usedIds, gov>>

\* queueUpload(recordId) for a stored record whose item has been abandoned,
\* up to its await of the put
QueueUpload(r) ==
    /\ cap.pc = "idle"
    /\ r \in DOMAIN records
    /\ r \in DOMAIN queue /\ queue[r].retryCount >= MAX_RETRIES
    /\ cap' = [IdleCap EXCEPT !.pc = "enqueue", !.id = r,
                              !.item = queueItem(r, now)]
    /\ UNCHANGED <<now, dbVars, envVars, umVars, usedIds, gov, rm>>

\* the timers cancelAllRetries reaches: the values of retryTimeouts
armedRetriesMutant == {}
armedRetries == {retryTimeouts[r] : r \in DOMAIN retryTimeouts}

\* cancelAllRetries()
CancelAllRetries ==
    /\ timers # {}
    /\ timers' = timers \ armedRetries
    /\ retryTimeouts' = EmptyMap
    /\ UNCHANGED <<now, dbVars, envVars, isProcessing, passes, usedIds, cap,
                   gov, rm>>

RestartNext == ReliableNext \/ Restart

RestartSpec == Init /\ [][RestartNext]_vars

EnqueueNext == ReliableNext \/ \E r \in Recs : QueueUpload(r)

EnqueueSpec == Init /\ [][EnqueueNext]_vars

CancelNext == ReliableNext \/ CancelAllRetries

CancelSpec == Init /\ [][CancelNext]_vars

\* the step in which pass p resumes after an await
Steps(p) == passes'[p] # passes[p]

\* C13: a failure while handling one queue item (here: persisting its backoff
\* state) does not end the pass; the next due, not abandoned item of the
\* snapshot is attempted.
C13_FailureIsolation ==
    [][\A p \in PassIds :
          (passes[p].pc = "requeue" /\ Steps(p)
             /\ Advance(passes[p].rest, now) # <<>>)
              => /\ passes'[p].pc = "getRecord"
                 /\ passes'[p].cur = Head(Advance(passes[p].rest, now))]_vars

\* C14: a restart keeps every persisted queue item with its retryCount and
\* nextRetryAt and leaves the draining flag false with no pass running; a
\* pass that reads the queue works on the persisted items as they are.
C14_DurableQueue ==
    /\ [][session' # session =>
             /\ queue' = queue
             /\ isProcessing' = FALSE
             /\ \A p \in PassIds : passes'[p].pc = "idle"]_vars
    /\ [][\A p \in PassIds :
             (passes[p].pc = "getQueue" /\ passes'[p].pc = "getRecord") =>
                 /\ passes'[p].cur = queue[passes'[p].cur.recordId]
                 /\ \A i \in DOMAIN passes'[p].rest :
                       passes'[p].rest[i] = queue[passes'[p].rest[i].recordId]]_vars

\* after a restart a pass attempts an item with the backoff state persisted
\* for it
C14_Witness ==
    /\ session >= 1
    /\ \E p \in PassIds :
          /\ passes[p].pc \in AttemptPcs
          /\ passes[p].cur.retryCount >= 1
          /\ passes[p].cur.recordId \in DOMAIN queue
          /\ passes[p].cur = queue[passes[p].cur.recordId]

\* C15: when queueUpload has persisted its item, the queue holds for the
\* record exactly the new item (retryCount 0, no nextRetryAt, the timestamp
\* of the call) whatever it held before, the other items and the records are
\* unchanged, and a drain has been started without being awaited.
C15_EnqueueOverwrites ==
    [][(cap.pc = "enqueue" /\ cap'.pc = "idle") =>
          /\ queue' = Put(queue, cap.id,
                          [recordId |-> cap.id, timestamp |-> cap.item.timestamp,
                           retryCount |-> 0, nextRetryAt |-> 0])
          /\ cap.item.timestamp <= now
          /\ records' = records
          /\ isProcessing'
          /\ ~isProcessing => \E p \in PassIds : passes'[p].pc = "getQueue"]_vars

\* a record whose upload had failed (its retry timer is still armed) has been
\* enqueued again
C15_Witness ==
    /\ cap.pc = "idle"
    /\ \E r \in DOMAIN queue :
          /\ queue[r].retryCount = 0 /\ queue[r].nextRetryAt = 0
          /\ \E t \in timers : t.recordId = r

\* C16: an accepted upload writes the record back synced, with uploadAttempts
\* one higher than stored before, lastUploadAttempt set and no error; when
\* the item's handling completes its queue item is gone and the record is
\* stored so.
C16_SuccessBookkeeping ==
    [][\A p \in PassIds :
          LET id == passes[p].cur.recordId IN
          /\ (passes[p].pc = "fetch" /\ passes'[p].pc = "updateRecord") =>
                /\ passes'[p].rec.synced = 1
                /\ passes'[p].rec.uploadAttempts = records[id].uploadAttempts + 1
                /\ passes'[p].rec.lastUploadAttempt = now
                /\ passes'[p].rec.error = FALSE
                /\ passes'[p].rec.media = records[id].media
          /\ (passes[p].pc = "updateRecord" /\ Steps(p)) =>
                records' = Put(records, id, passes[p].rec)
          /\ (passes[p].pc = "deleteItem" /\ Steps(p)) =>
                /\ id \notin DOMAIN queue'
                /\ records'[id] = passes[p].rec
                /\ \A r \in DOMAIN queue \ {id} :
                      r \in DOMAIN queue' /\ queue'[r] = queue[r]]_vars

\* a record has been uploaded and its item removed while another item waits
C16_Witness ==
    \E r \in DOMAIN records :
        /\ records[r].synced = 1 /\ records[r].uploadAttempts = 1
        /\ records[r].lastUploadAttempt >= Now0
        /\ r \notin DOMAIN queue
        /\ queue # EmptyMap

\* C17: no record has two pending retry timers.
C17_OneTimerPerRecord ==
    \A r \in Recs : Cardinality({t \in timers : t.recordId = r}) <= 1

\* a record has failed twice in this session: its second timer is the only one
C17_Witness ==
    \E r \in DOMAIN queue :
        /\ queue[r].retryCount >= 2 /\ queue[r].timestamp >= Now0
        /\ {t \in timers : t.recordId = r}
               = {[recordId |-> r, at |-> queue[r].nextRetryAt]}

\* the step of cancelAllRetries (or of the last timer firing during a pass)
ForgetsTimers ==
    /\ retryTimeouts # EmptyMap /\ retryTimeouts' = EmptyMap
    /\ passes' = passes /\ cap' = cap

\* C18, as the code has it: cancelAllRetries leaves no timer armed and leaves
\* the queue, the records and the files unchanged; a drain that reads the
\* queue afterwards takes up every item that is due and not abandoned.
C18_CancelKeepsQueue ==
    /\ [][ForgetsTimers =>
             /\ timers' = {}
             /\ queue' = queue /\ records' = records /\ blobs' = blobs
             /\ isProcessing' = isProcessing]_vars
    /\ [][\A p \in PassIds :
             (passes[p].pc = "getQueue" /\ Steps(p)) =>
                 \A r \in DOMAIN queue :
                     ~Skip(queue[r], now) => r \in Held(p)']_vars

\* timers were cancelled: an item is in backoff, not yet due, and no timer is
\* armed
C18_Witness ==
    /\ timers = {} /\ retryTimeouts = EmptyMap
    /\ \E r \in DOMAIN queue :
          queue[r].retryCount >= 1 /\ queue[r].nextRetryAt > now

\* C18, as stated: after cancelAllRetries the items still pending are
\* processed by the next explicit drain.
C18_ProcessedByNextDrain ==
    [][\A p \in PassIds :
          (passes[p].pc = "getQueue" /\ Steps(p) /\ timers = {}) =>
              \A r \in DOMAIN queue :
                  queue[r].retryCount < 5 => r \in Held(p)']_vars

FormSizes == {10, 30}

\* the await on ensureStorageSpace returns normally, or throws into the catch
AdmittedMutant(result) == TRUE
Admitted(result) == result = "ok"

\* processFiles(files): totalSize is summed and ensureStorageSpace is called
ProcessFiles(formSize) ==
    /\ cap.pc = "idle"
    /\ gov.pc = "idle"
    /\ usedIds # Recs
    /\ LET id == CHOOSE x \in Recs \ usedIds : \A y \in Recs \ usedIds : x <= y
           totalSize == formSize
                        + TotalSize(BlobNames(MediaOf(id, HasThumbnail(id))))
       IN gov' = [IdleGov EXCEPT !.pc = "estimate", !.kind = "ensure",
                                 !.requiredBytes = totalSize, !.pre = Stores]
    /\ cap' = [IdleCap EXCEPT !.pc = "ensure"]
    /\ UNCHANGED <<now, dbVars, envVars, umVars, usedIds, rm>>

\* ensureStorageSpace has settled: createRecord is called, or the catch
\* block reports the error and the flow ends
CaptureResume ==
    /\ cap.pc = "ensure"
    /\ gov.pc = "done"
    /\ gov' = IdleGov
    /\ IF Admitted(gov.result)
       THEN LET id == CHOOSE x \in Recs \ usedIds :
                          \A y \in Recs \ usedIds : x <= y
                media == MediaOf(id, HasThumbnail(id))
            IN /\ usedIds' = usedIds \cup {id}
               /\ cap' = [IdleCap EXCEPT !.pc = "saveFile", !.id = id,
                                         !.timestamp = now, !.media = media,
                                         !.toSave = BlobNames(media)]
       ELSE /\ cap' = IdleCap
            /\ UNCHANGED usedIds
    /\ UNCHANGED <<now, dbVars, envVars, umVars, rm>>

CaptureNext ==
    \/ \E f \in FormSizes : ProcessFiles(f)
    \/ GovEstimate \/ GovSettings \/ RetSettings \/ RetAll \/ GovOldest
    \/ GovFinalEstimate
    \/ RmStep("gov")
    \/ CaptureResume
    \/ CapSaveFile \/ CapAddRecord \/ CapEnqueue

CaptureSpec == GovInit /\ [][CaptureNext]_vars

\* C22: when ensureStorageSpace fails in the capture flow, the flow ends
\* without a write: no id is taken, no blob, record or queue item is stored;
\* and createRecord starts only from an ensureStorageSpace that succeeded.
C22_FailedEnsureWritesNothing ==
    /\ [][(cap.pc = "ensure" /\ gov.pc = "done" /\ gov.result # "ok"
             /\ gov' # gov)
          => /\ cap' = IdleCap
             /\ usedIds' = usedIds
             /\ records' = records /\ queue' = queue /\ blobs' = blobs]_vars
    /\ [][(cap.pc # "saveFile" /\ cap'.pc = "saveFile")
          => (gov.pc = "done" /\ gov.result = "ok")]_vars

\* the capture flow's ensureStorageSpace has failed after evicting what it could
C22_Witness ==
    /\ cap.pc = "ensure"
    /\ gov.pc = "done"
    /\ gov.result = "full"
    /\ gov.requiredBytes > 0


(***************************************************************************)
(* dataManager.ts: nukeAllData, the factory reset of the settings page.    *)
(* Its awaits are db.clear('records'), db.clear('uploads') and clearOPFS;  *)
(* the wipe of the directory is taken as one step.                         *)
(***************************************************************************)
\* handleNuke: nukeAllData() is called
NukeAllData ==
    /\ ui.nuke = "idle"
    /\ ui' = [ui EXCEPT !.nuke = "clearRecords"]
    /\ UNCHANGED <<now, dbVars, storedSettings, quota, otherBytes, session,
                   umVars, usedIds, cap, gov, rm>>

\* clearAllMetadata: await db.clear('records')
NukeClearRecords ==
    /\ ui.nuke = "clearRecords"
    /\ records' = EmptyMap
    /\ ui' = [ui EXCEPT !.nuke = "clearUploads"]
    /\ UNCHANGED <<now, queue, blobs, storedSettings, quota, otherBytes,
                   session, umVars, usedIds, cap, gov, rm>>

\* clearAllMetadata: await db.clear('uploads')
NukeClearUploads ==
    /\ ui.nuke = "clearUploads"
    /\ queue' = EmptyMap
    /\ ui' = [ui EXCEPT !.nuke = "clearOPFS"]
    /\ UNCHANGED <<now, records, blobs, storedSettings, quota, otherBytes,
                   session, umVars, usedIds, cap, gov, rm>>

\* await clearOPFS(): every entry of the directory is removed; nukeAllData
\* returns
NukeClearOPFS ==
    /\ ui.nuke = "clearOPFS"
    /\ blobs' = {}
    /\ ui' = [ui EXCEPT !.nuke = "idle"]
    /\ UNCHANGED <<now, records, queue, storedSettings, quota, otherBytes,
                   session, umVars, usedIds, cap, gov, rm>>

NukeStep ==
    \/ NukeAllData \/ NukeClearRecords \/ NukeClearUploads \/ NukeClearOPFS

NukeNext ==
    \/ ReliableNext
    \/ NukeStep

NukeSpec == Init /\ [][NukeNext]_vars

\* C23: the step in which nukeAllData returns leaves no record, no queue item
\* and no file, and the persisted settings as they were.
C23_NukeEmptiesAll ==
    [][(ui.nuke = "clearOPFS" /\ ui'.nuke = "idle")
         => /\ records' = EmptyMap
            /\ queue' = EmptyMap
            /\ blobs' = {}
            /\ storedSettings' = storedSettings]_vars


(***************************************************************************)
(* storageManager.ts: updateStorageSettings, called by the settings page.  *)
(***************************************************************************)
\* the partial settings objects a caller passes
PartialChoices ==
    {a @@ b @@ c :
        a \in Optional("autoEvict", TRUE) \cup Optional("autoEvict", FALSE),
        b \in Optional("retentionDays", 1) \cup Optional("retentionDays", 0),
        c \in Optional("maxStorageMB", 1) \cup Optional("maxStorageMB", 0)}

\* updateStorageSettings(settings) is called
UpdateStorageSettings(partial) ==
    /\ ui.upd = "idle"
    /\ ui' = [ui EXCEPT !.upd = "get", !.partial = partial]
    /\ UNCHANGED <<now, dbVars, storedSettings, quota, otherBytes, session,
                   umVars, usedIds, cap, gov, rm>>

\* const current = await getStorageSettings()
UpdGet ==
    /\ ui.upd = "get"
    /\ ui' = [ui EXCEPT !.upd = "put", !.current = getStorageSettings]
    /\ UNCHANGED <<now, dbVars, storedSettings, quota, otherBytes, session,
                   umVars, usedIds, cap, gov, rm>>

\* await setSetting('storageSettings', { ...current, ...settings })
UpdPut ==
    /\ ui.upd = "put"
    /\ storedSettings' = ui.partial @@ ui.current
    /\ ui' = [ui EXCEPT !.upd = "idle", !.partial = << >>, !.current = << >>]
    /\ UNCHANGED <<now, dbVars, quota, otherBytes, session,
                   umVars, usedIds, cap, gov, rm>>

SettingsInit == GovInit /\ records = EmptyMap

SettingsNext ==
    \/ \E partial \in PartialChoices : UpdateStorageSettings(partial)
    \/ UpdGet
    \/ UpdPut

SettingsSpec == SettingsInit /\ [][SettingsNext]_vars

\* C24: getStorageSettings gives, field by field, the persisted value if
\* there is one and the default otherwise; an update changes exactly the
\* fields of its argument, as seen by getStorageSettings before and after.
C24_SettingsMerge ==
    /\ [](/\ DOMAIN getStorageSettings = DOMAIN DEFAULT_SETTINGS
          /\ \A f \in DOMAIN DEFAULT_SETTINGS :
                getStorageSettings[f] =
                    IF f \in DOMAIN storedSettings THEN storedSettings[f]
                    ELSE DEFAULT_SETTINGS[f])
    /\ [][(ui.upd = "put" /\ ui'.upd = "idle")
            => \A f \in DOMAIN DEFAULT_SETTINGS :
                 getStorageSettings'[f] =
                    IF f \in DOMAIN ui.partial THEN ui.partial[f]
                    ELSE getStorageSettings[f]]_vars

\* an update has been written: the stored settings hold its fields, the
\* values persisted before it and the defaults of the fields never set
C24_Witness ==
    /\ ui.upd = "idle"
    /\ "retentionDays" \in DOMAIN storedSettings
    /\ storedSettings["retentionDays"] = 0
    /\ storedSettings["autoEvict"] = TRUE
    /\ storedSettings["maxStorageMB"] = 1
    /\ storedSettings["deleteSyncedOnly"] = TRUE


(***************************************************************************)
(* ensureStorageSpace on settings persisted by the earlier settings page,  *)
(* which stored maxStoragePercent (types: maxStoragePercent?: number).     *)
(***************************************************************************)
\* the settings object with or without a persisted maxStoragePercent of 80
PercentSettingsChoices ==
    {s @@ e : s \in StoredSettingsChoices,
              e \in Optional("maxStoragePercent", 80)}

PercentInit ==
    /\ now = Now0
    /\ \E ids \in SUBSET Recs :
        /\ usedIds = ids
        /\ records \in [ids -> UNION {StoredRecordChoices(id) : id \in ids}]
        /\ \A id \in ids : records[id].id = id
        /\ queue = [id \in {x \in ids : records[x].synced = 0} |->
                       [recordId |-> id, timestamp |-> records[id].timestamp,
                        retryCount |-> 0, nextRetryAt |-> NoRetryAt]]
        /\ blobs = UNION {Range(BlobNames(records[id].media)) : id \in ids}
    /\ storedSettings \in PercentSettingsChoices
    /\ \E pf \in Platforms : quota = pf.quota /\ otherBytes = pf.other
    /\ session = 0
    /\ ui = IdleUi
    /\ isProcessing = FALSE
    /\ retryTimeouts = EmptyMap
    /\ timers = {}
    /\ passes = [p \in PassIds |-> IdlePass]
    /\ cap = IdleCap
    /\ gov = IdleGov
    /\ rm = [c \in RmCallers |-> IdleRm]

PercentNext ==
    \/ \E b \in RequiredChoices : EnsureStorageSpace(b)
    \/ GovStep
    \/ RmStep("gov")

PercentSpec == PercentInit /\ [][PercentNext]_vars

\* C25: once ensureStorageSpace has read the settings, the ceiling it works
\* with is min(quota, maxStorageMB * 1 MB) when maxStorageMB > 0, otherwise
\* quota * maxStoragePercent / 100 when maxStoragePercent is set, otherwise
\* the quota.
C25_EffectiveCeiling ==
    (gov.kind = "ensure" /\ gov.pc \notin {"idle", "estimate", "settings"})
        => gov.limit =
             IF gov.settings.maxStorageMB > 0
             THEN Min(gov.quota, gov.settings.maxStorageMB * MB)
             ELSE IF "maxStoragePercent" \in DOMAIN gov.settings
             THEN (gov.quota * gov.settings.maxStoragePercent) \div 100
             ELSE gov.quota


(***************************************************************************)
(* Size-based eviction, seen from the outcome of ensureStorageSpace.       *)
(***************************************************************************)
\* the records left to the eviction loop that it may delete
Evictable ==
    {r \in DOMAIN gov.pre.records \ ToExpire :
        gov.pre.records[r].synced = 1 \/ ~DeleteSyncedOnlyOn}

\* the records the eviction loop has deleted
Evicted == {r \in DOMAIN gov.pre.records \ ToExpire : r \notin DOMAIN records}

\* r comes before d in the order of the by-timestamp index
Before(r, d) ==
    \/ gov.pre.records[r].timestamp < gov.pre.records[d].timestamp
    \/ /\ gov.pre.records[r].timestamp = gov.pre.records[d].timestamp
       /\ r < d

SizeBytesOf(S) == SumOver(S, [r \in S |-> gov.pre.records[r].sizeBytes])

\* 5 * bytesToFree of the call, from what it was called on
BytesToFree5 ==
    5 * (gov.pre.usage + gov.requiredBytes - Ceiling) + gov.requiredBytes

\* C26: when ensureStorageSpace has evicted by size, it deleted only eligible
\* records, oldest first (none while an older eligible one survives), none
\* after the sizes of those deleted before it had reached bytesToFree, and it
\* went on until the target was reached or no eligible record was left; in
\* the example (quota 1000, usage 950, requiredBytes 100, one evictable
\* 80-byte record) that record is deleted, usage is 870 and the call succeeds.
C26_EvictionOrderAndStop ==
    (gov.pc = "done" /\ gov.kind = "ensure" /\ AutoEvictOn
        /\ gov.pre.usage + gov.requiredBytes > Ceiling) =>
        /\ Evicted \subseteq Evictable
        /\ \A d \in Evicted : \A r \in Evictable :
              gov.pre.records[r].timestamp < gov.pre.records[d].timestamp
                  => r \in Evicted
        /\ \A d \in Evicted :
              5 * SizeBytesOf({r \in Evicted : Before(r, d)}) < BytesToFree5
        /\ Evictable \ Evicted # {} => 5 * SizeBytesOf(Evicted) >= BytesToFree5
        /\ (/\ quota = 1000 /\ Ceiling = 1000 /\ gov.pre.usage = 950
            /\ gov.requiredBytes = 100
            /\ Evictable = DOMAIN gov.pre.records)
           => /\ gov.result = "ok"
              /\ records = EmptyMap
              /\ Usage = 870

\* the older of two evictable records was deleted and reached the target;
\* the younger one was kept
C26_Witness ==
    /\ gov.pc = "done" /\ gov.kind = "ensure" /\ gov.result = "ok"
    /\ Cardinality(Evictable) = 2
    /\ Cardinality(Evicted) = 1
    /\ \E d \in Evicted : \E r \in Evictable \ Evicted : Before(d, r)

\* the example of the claim
C26_ExampleWitness ==
    /\ gov.pc = "done" /\ gov.kind = "ensure" /\ gov.result = "ok"
    /\ quota = 1000 /\ Ceiling = 1000 /\ gov.pre.usage = 950
    /\ gov.requiredBytes = 100
    /\ Cardinality(Evicted) = 1
    /\ Usage = 870


(***************************************************************************)
(* The upload queue manager on stores an earlier session left out of step: *)
(* a queue item whose record is gone, a record whose files are not all     *)
(* there.                                                                  *)
(***************************************************************************)
DesyncRetryCounts == {0, 4}

DesyncInit ==
    /\ now = Now0
    /\ \E r \in Recs, hasRecord \in BOOLEAN, n \in DesyncRetryCounts :
          LET media == MediaOf(r, HasThumbnail(r)) IN
          /\ records = IF hasRecord
                       THEN (r :> NewRecord(r, Now0 - DayMs, media))
                       ELSE EmptyMap
          /\ queue = (r :> [recordId |-> r, timestamp |-> Now0 - DayMs,
                            retryCount |-> n,
                            nextRetryAt |-> IF n = 0 THEN NoRetryAt
                                            ELSE Now0 - BASE_RETRY_DELAY])
          /\ blobs \in SUBSET Range(BlobNames(media))
          /\ ~hasRecord => blobs = {}
          /\ usedIds = 1..r
    /\ storedSettings = EmptyMap
    /\ quota = 1000
    /\ otherBytes = 0
    /\ session = 0
    /\ ui = IdleUi
    /\ isProcessing = FALSE
    /\ retryTimeouts = EmptyMap
    /\ timers = {}
    /\ passes = [p \in PassIds |-> IdlePass]
    /\ cap = IdleCap
    /\ gov = IdleGov
    /\ rm = [c \in RmCallers |-> IdleRm]

DesyncSpec == DesyncInit /\ [][ReliableNext]_vars

\* C27: an attempt that finds no record for its item fails like any other:
\* the item stays, is put back with retryCount + 1 and nextRetryAt = now +
\* 1000 * 2^retryCount, its timer is armed, and no attempt is made for an
\* item whose retryCount has reached MAX_RETRIES.
C27_MissingRecordIsFailure ==
    /\ [][\A p \in PassIds :
            LET item == passes[p].cur IN
            /\ (/\ passes[p].pc = "getRecord"
                /\ item.recordId \notin DOMAIN records
                /\ passes'[p] # passes[p]) =>
                  /\ passes'[p].pc = "requeue"
                  /\ passes'[p].cur =
                       [item EXCEPT !.retryCount = item.retryCount + 1,
                                    !.nextRetryAt =
                                        now + ExpectedDelay(item.retryCount)]
                  /\ queue' = queue
            /\ (/\ passes[p].pc = "requeue"
                /\ item.recordId \notin DOMAIN records
                /\ passes'[p] # passes[p]) =>
                  /\ item.recordId \in DOMAIN queue'
                  /\ queue'[item.recordId] = item
                  /\ \E t \in timers' :
                        /\ t.recordId = item.recordId
                        /\ t.at = now + ExpectedDelay(item.retryCount - 1)]_vars
    /\ [](\A p \in PassIds :
            passes[p].pc \in AttemptPcs => passes[p].cur.retryCount < MAX_RETRIES)

\* the item of a record that is gone has failed its last attempt in this
\* session and is abandoned, still in the queue
C27_Witness ==
    \E r \in DOMAIN queue :
        /\ r \notin DOMAIN records
        /\ queue[r].retryCount = MAX_RETRIES
        /\ queue[r].nextRetryAt > Now0

\* C28: when a pass has met a queue item whose record is absent, the step
\* that ends the handling of that item leaves no item for the record in the
\* queue.
C28_DesyncItemDropped ==
    [][\A p \in PassIds :
          (/\ passes[p].pc = "requeue"
           /\ passes[p].cur.recordId \notin DOMAIN records
           /\ passes'[p] # passes[p])
              => passes[p].cur.recordId \notin DOMAIN queue']_vars

\* C30: an attempt that finds a file of its record missing sends nothing: it
\* goes to the catch branch with retryCount + 1 and the backoff, leaving
\* records and queue as they were; and a pass that submits has read every
\* file of the record.
C30_NoPartialUpload ==
    /\ [][\A p \in PassIds :
            LET item == passes[p].cur IN
            (/\ passes[p].pc = "getBlob"
             /\ Head(passes[p].toRead) \notin blobs
             /\ passes'[p] # passes[p]) =>
               /\ passes'[p].pc = "requeue"
               /\ passes'[p].cur =
                    [item EXCEPT !.retryCount = item.retryCount + 1,
                                 !.nextRetryAt =
                                     now + ExpectedDelay(item.retryCount)]
               /\ queue' = queue /\ records' = records]_vars
    /\ [](\A p \in PassIds :
            passes[p].pc = "fetch" => FilesOf(passes[p].rec) \subseteq blobs)

\* the primary file was read, the thumbnail is missing: the attempt has
\* failed and its item is back in the queue with one more retry
C30_Witness ==
    \E r \in DOMAIN records :
        /\ FileOf(r) \in blobs
        /\ HasThumbnail(r) /\ ThumbOf(r) \notin blobs
        /\ r \in DOMAIN queue
        /\ queue[r].retryCount = 1
        /\ queue[r].nextRetryAt = Now0 + BASE_RETRY_DELAY
        /\ records[r].synced = 0


\* C29: the step that handles the failure bringing an item's retryCount to
\* MAX_RETRIES leaves no item for the record in the queue, and the record
\* is still unsynced.
C29_AbandonedItemDeleted ==
    [][\A p \in PassIds :
          (/\ passes[p].pc = "requeue"
           /\ passes[p].cur.retryCount = MAX_RETRIES
           /\ passes'[p] # passes[p])
              => /\ passes[p].cur.recordId \notin DOMAIN queue'
                 /\ passes[p].cur.recordId \in DOMAIN records'
                      => records'[passes[p].cur.recordId].synced = 0]_vars


(***************************************************************************)
(* The backoff, seen from the attempts a pass starts.                      *)
(***************************************************************************)
\* pass p takes up an item in this step
StartsAttempt(p) ==
    /\ passes'[p].pc = "getRecord"
    /\ passes[p].pc # "getRecord"

\* the items the loop of pass p has still to go through, before the step
LoopItems(p) ==
    IF passes[p].pc = "getQueue" THEN getUploadQueue ELSE passes[p].rest

\* the items pass p holds after the step
HeldItems(p) ==
    (IF passes'[p].pc = "getRecord" THEN {passes'[p].cur} ELSE {})
    \cup Range(passes'[p].rest)

\* C31: a pass takes up an item only when its nextRetryAt, in the snapshot
\* and as persisted, is not in the future; and the items its loop passes
\* over are in backoff or abandoned, so that an item without nextRetryAt
\* (and not abandoned) is taken up as soon as the loop reaches it.
C31_BackoffRespected ==
    [][\A p \in PassIds :
          /\ StartsAttempt(p) =>
                LET item == passes'[p].cur IN
                /\ item.nextRetryAt <= now
                /\ item.recordId \in DOMAIN queue
                      => queue[item.recordId].nextRetryAt <= now
          /\ (passes'[p] # passes[p]
                /\ passes[p].pc \in {"getQueue", "deleteItem", "requeue"}) =>
                \A item \in Range(LoopItems(p)) \ HeldItems(p) :
                    \/ item.nextRetryAt > now
                    \/ item.retryCount >= MAX_RETRIES]_vars

\* a pass has passed over an older item in backoff, not abandoned, and is
\* attempting a younger one
C31_Witness ==
    \E p \in PassIds, r \in DOMAIN queue :
        /\ passes[p].pc \in AttemptPcs
        /\ passes[p].cur.recordId # r
        /\ queue[r].timestamp < passes[p].cur.timestamp
        /\ queue[r].nextRetryAt > now
        /\ queue[r].retryCount < MAX_RETRIES


(***************************************************************************)
(* The governor on a platform whose storage estimate has no quota:         *)
(* quota = estimate.quota || 0.                                            *)
(***************************************************************************)
\* getStorageEstimate: percentUsed, in whole percent
percentUsed(usage, q) == IF q > 0 THEN (usage * 100) \div q ELSE 0

UnknownQuotaInit ==
    /\ now = Now0
    /\ \E ids \in SUBSET Recs :
        /\ usedIds = ids
        /\ records \in [ids -> UNION {StoredRecordChoices(id) : id \in ids}]
        /\ \A id \in ids : records[id].id = id
        /\ queue = [id \in {x \in ids : records[x].synced = 0} |->
                       [recordId |-> id, timestamp |-> records[id].timestamp,
                        retryCount |-> 0, nextRetryAt |-> NoRetryAt]]
        /\ blobs = UNION {Range(BlobNames(records[id].media)) : id \in ids}
    /\ storedSettings \in StoredSettingsChoices
    /\ quota = 0
    /\ otherBytes = 0
    /\ session = 0
    /\ ui = IdleUi
    /\ isProcessing = FALSE
    /\ retryTimeouts = EmptyMap
    /\ timers = {}
    /\ passes = [p \in PassIds |-> IdlePass]
    /\ cap = IdleCap
    /\ gov = IdleGov
    /\ rm = [c \in RmCallers |-> IdleRm]

UnknownQuotaSpec == UnknownQuotaInit /\ [][PercentNext]_vars

\* C32: with quota = 0 percentUsed is 0, and ensureStorageSpace, having
\* measured a quota of 0 and no explicit cap being set, lets the write
\* through without deleting anything.
C32_UnknownQuotaAdmits ==
    /\ percentUsed(Usage, quota) = 0
    /\ (gov.kind = "ensure" /\ gov.pc = "done" /\ gov.quota = 0
            /\ MaxStorageMBSet = 0)
          => gov.result = "ok" /\ StoresUntouched


(***************************************************************************)
(* Two capture flows.  processFiles has no guard of its own: a second call *)
(* (another capture, another window) runs its ensureStorageSpace while the *)
(* first is inside createRecord.                                           *)
(***************************************************************************)
\* a device with 100 bytes left
TightPlatform == [quota |-> 1000, other |-> 900]

TightInit ==
    /\ now = Now0
    /\ records = EmptyMap /\ queue = EmptyMap /\ blobs = {} /\ usedIds = {}
    /\ storedSettings \in StoredSettingsChoices
    /\ quota = TightPlatform.quota /\ otherBytes = TightPlatform.other
    /\ session = 0
    /\ ui = IdleUi
    /\ isProcessing = FALSE
    /\ retryTimeouts = EmptyMap
    /\ timers = {}
    /\ passes = [p \in PassIds |-> IdlePass]
    /\ cap = IdleCap
    /\ gov = IdleGov
    /\ rm = [c \in RmCallers |-> IdleRm]

\* processFiles(files) of a second flow, the first being inside createRecord
ProcessFilesAgain(formSize) ==
    /\ cap.pc \in {"saveFile", "addRecord", "enqueue"}
    /\ gov.pc = "idle"
    /\ usedIds # Recs
    /\ LET id == CHOOSE x \in Recs \ usedIds : \A y \in Recs \ usedIds : x <= y
           totalSize == formSize
                        + TotalSize(BlobNames(MediaOf(id, HasThumbnail(id))))
       IN gov' = [IdleGov EXCEPT !.pc = "estimate", !.kind = "ensure",
                                 !.requiredBytes = totalSize, !.pre = Stores]
    /\ UNCHANGED <<now, dbVars, envVars, umVars, usedIds, cap, rm>>

\* the second flow's ensureStorageSpace has settled and the first flow has
\* ended: the second calls createRecord, or reports the error
CaptureResumeAgain ==
    /\ cap.pc = "idle"
    /\ gov.pc = "done"
    /\ gov' = IdleGov
    /\ IF Admitted(gov.result)
       THEN LET id == CHOOSE x \in Recs \ usedIds :
                          \A y \in Recs \ usedIds : x <= y
                media == MediaOf(id, HasThumbnail(id))
            IN /\ usedIds' = usedIds \cup {id}
               /\ cap' = [IdleCap EXCEPT !.pc = "saveFile", !.id = id,
                                         !.timestamp = now, !.media = media,
                                         !.toSave = BlobNames(media)]
       ELSE UNCHANGED <<usedIds, cap>>
    /\ UNCHANGED <<now, dbVars, envVars, umVars, rm>>

TwoFlowsNext ==
    \/ CaptureNext
    \/ \E f \in FormSizes : ProcessFilesAgain(f)
    \/ CaptureResumeAgain

TwoFlowsSpec == TightInit /\ [][TwoFlowsNext]_vars

\* C33: after every file written by an admitted capture, the usage is at
\* most the effective ceiling.
C33_NeverOverCommitted ==
    [][(cap.pc = "saveFile" /\ blobs' # blobs) => Usage' <= Ceiling]_vars


\* C34: a write-back of a drain pass does not undo a removeRecord: the put
\* of the uploaded record does not create a row that is no longer there, and
\* the put of the failed item does not insert an item that is no longer there.
C34_RemoveIsFinal ==
    [][\A p \in PassIds :
          passes'[p] # passes[p] =>
             /\ passes[p].pc = "updateRecord" =>
                   (passes[p].cur.recordId \in DOMAIN records'
                       => passes[p].cur.recordId \in DOMAIN records)
             /\ passes[p].pc = "requeue" =>
                   (passes[p].cur.recordId \in DOMAIN queue'
                       => passes[p].cur.recordId \in DOMAIN queue)]_vars


\* the item of r failed in this session and waits for its retry
InBackoff(r) ==
    /\ r \in DOMAIN queue
    /\ queue[r].retryCount < MAX_RETRIES
    /\ queue[r].nextRetryAt > Now0

\* C35: while no pass is in flight, every item in backoff, not abandoned,
\* has its retry timer armed (a retry that has already been made has either
\* removed the item or put it in a new backoff with a new timer).
C35_NoRetryLost ==
    ActivePasses = {} =>
        \A r \in DOMAIN queue :
            InBackoff(r) => \E t \in timers : t.recordId = r


\* the item of r was enqueued in this session and never taken up by a pass
NeverAttempted(r) ==
    /\ ThisSession(r)
    /\ queue[r].retryCount = 0
    /\ queue[r].nextRetryAt = NoRetryAt
    /\ r \in DOMAIN records /\ records[r].synced = 0

\* C36: an item enqueued during a pass is attempted by some pass without a
\* further trigger: when no pass or enqueue is running and no timer is
\* armed, no item of this session is left that was never attempted.
C36_EnqueuedDuringPassAttempted ==
    (ActivePasses = {} /\ cap.pc = "idle" /\ timers = {}) =>
        \A r \in DOMAIN queue : ~NeverAttempted(r)


\* C37: isProcessing is true exactly while a pass is in flight; a pass that
\* has ended, through the end of its loop or through an exception, has
\* reset it, so the next processQueue call starts a pass.
C37_FlagTracksPass ==
    /\ [](isProcessing <=> ActivePasses # {})
    /\ [][\A p \in PassIds :
            (Active(p) /\ ~Active(p)') => ~isProcessing']_vars

\* a pass has ended through an exception while persisting a failure: the
\* record was written back as synced, deleting its item failed, the put in
\* the catch branch failed too; the flag is false
C37_Witness ==
    /\ ~isProcessing
    /\ ActivePasses = {}
    /\ \E r \in DOMAIN queue :
          /\ r \in DOMAIN records /\ records[r].synced = 1
          /\ queue[r].retryCount = 0
          /\ \A t \in timers : t.recordId # r


\* C38: when the records deleted by the retention step of ensureStorageSpace
\* already amount to bytesToFree, the size-based loop deletes no record.
C38_EvictOnlyIfStillNeeded ==
    (gov.pc = "done" /\ gov.kind = "ensure" /\ AutoEvictOn
        /\ gov.pre.usage + gov.requiredBytes > Ceiling
        /\ 5 * SizeBytesOf(ToExpire) >= BytesToFree5)
        => Evicted = {}


(***************************************************************************)
(* createRecord when a write fails: saveFileToOPFS or db.addRecord throws  *)
(* and the exception leaves createRecord, which has no catch.              *)
(***************************************************************************)
\* await saveFileToOPFS(...) throws 'Failed to save file to storage'
CapSaveFileFails ==
    /\ cap.pc = "saveFile"
    /\ cap' = IdleCap
    /\ UNCHANGED <<now, dbVars, envVars, umVars, usedIds, gov, rm>>

\* await db.addRecord(record) throws
CapAddRecordFails ==
    /\ cap.pc = "addRecord"
    /\ cap' = IdleCap
    /\ UNCHANGED <<now, dbVars, envVars, umVars, usedIds, gov, rm>>

CreateFailNext ==
    \/ ReliableNext
    \/ CapSaveFileFails
    \/ CapAddRecordFails

CreateFailSpec == Init /\ [][CreateFailNext]_vars

\* C39: while no createRecord and no removeRecord is running, every file in
\* the Blob Store is referenced by exactly one stored record.
C39_NoOrphanBlobs ==
    (cap.pc = "idle" /\ \A c \in RmCallers : rm[c].pc = "idle") =>
        \A f \in blobs :
            Cardinality({r \in DOMAIN records : f \in FilesOf(records[r])}) = 1


\* C40: the retryCount of every persisted item is within 0..MAX_RETRIES, an
\* attempt is started only for an item below MAX_RETRIES, and every attempt
\* that fails is counted: when its handling ends, the persisted retryCount is
\* the incremented one.  Together these bound the attempts made for a record
\* between two enqueues by MAX_RETRIES.
C40_BoundedRetries ==
    /\ [](\A r \in DOMAIN queue :
             queue[r].retryCount >= 0 /\ queue[r].retryCount <= MAX_RETRIES)
    /\ [][\A p \in PassIds :
            /\ StartsAttempt(p) => passes'[p].cur.retryCount < MAX_RETRIES
            /\ (passes[p].pc = "requeue" /\ passes'[p] # passes[p]) =>
                  /\ passes[p].cur.recordId \in DOMAIN queue'
                  /\ queue'[passes[p].cur.recordId].retryCount
                        = passes[p].cur.retryCount]_vars

====
